---- MODULE Spec2Model ----
(***************************************************************************)
(* Model of superset/reports/notifications/email.py: the EmailNotification *)
(* channel.  A Python str is a sequence of tokens, a token being a piece   *)
(* of plain text, a piece of HTML markup, an entity-escaped piece of       *)
(* markup, a static piece of the HTML skeleton or a generated message id.  *)
(* A markup token stands for an element's tags; attributes are not         *)
(* modelled.  Optional[T] is a sequence of length at most one (None: <<>>). *)
(* A dict is the sequence of its items in insertion order.                 *)
(***************************************************************************)
EXTENDS Integers, Sequences, FiniteSets, TLC

\* Longest list of screenshots a report content carries in the model.
MaxShots == 2

\* The concurrent callers of send(); each owns one EmailNotification.
Calls == {1, 2}

----------------------------------------------------------------------------
\* Python values

None == <<>>
Some(x) == <<x>>
Get(o) == o[1]

\* Python truthiness of an Optional[str | bytes | list]: None and the empty
\* value are both falsy.
Truthy(o) == o # None /\ Len(Get(o)) > 0

Tok(kind, s, n) == [kind |-> kind, s |-> s, n |-> n]
Text(s) == Tok("text", s, 0)
Tag(s) == Tok("tag", s, 0)
Esc(s) == Tok("esc", s, 0)
Skel(s) == Tok("skel", s, 0)

\* The tokens of a string that are live markup <s ...>
HasTag(str, s) == \E i \in 1..Len(str) : str[i] = Tag(s)

\* dict[key] = val on an insertion-ordered dict: an existing key keeps its
\* position and takes the new value, a new key goes last.
DictPut(d, key, val) ==
    IF \E i \in 1..Len(d) : d[i].key = key
    THEN [i \in 1..Len(d) |-> IF d[i].key = key THEN [key |-> key, val |-> val] ELSE d[i]]
    ELSE Append(d, [key |-> key, val |-> val])

DictKeys(d) == [i \in 1..Len(d) |-> d[i].key]

RECURSIVE Concat(_)
Concat(strs) == IF strs = <<>> THEN <<>> ELSE Head(strs) \o Concat(Tail(strs))

----------------------------------------------------------------------------
\* Module constants

TABLE_TAGS == {"table", "th", "tr", "td", "thead", "tbody", "tfoot"}
TABLE_ATTRIBUTES == {"colspan", "rowspan", "halign", "border", "class"}

\* bleach.sanitizer.ALLOWED_TAGS, the default of bleach.clean(text)
BLEACH_ALLOWED_TAGS ==
    {"a", "abbr", "acronym", "b", "blockquote", "code", "em", "i", "li", "ol",
     "strong", "ul"}

\* bleach.clean(text, tags=...): markup outside the allow-list is escaped
\* (strip=False), everything else passes.
BleachClean(str, tags) ==
    [i \in 1..Len(str) |->
        IF str[i].kind = "tag" /\ str[i].s \notin tags THEN Esc(str[i].s) ELSE str[i]]

\* DataFrame.to_html(na_rep="", index=True): a one-row frame, every cell
\* entity-escaped (escape=True is the default) inside table markup.
HtmlEscape(str) ==
    [i \in 1..Len(str) |-> IF str[i].kind = "tag" THEN Esc(str[i].s) ELSE str[i]]

ToHtml(df) ==
    <<Tag("table"), Tag("tbody"), Tag("tr")>>
    \o Concat([i \in 1..Len(df) |-> <<Tag("td")>> \o HtmlEscape(df[i])])

----------------------------------------------------------------------------
\* Inputs

\* Error texts: absent, empty, plain, and one carrying markup.
Texts ==
    {None, Some(<<>>), Some(<<Text("oops")>>), Some(<<Tag("script"), Text("oops")>>)}

Descriptions ==
    {None, Some(<<Text("weekly")>>), Some(<<Tag("b"), Text("x"), Tag("script")>>)}

\* A data frame is the sequence of the cells of its row.
DataFrames ==
    {None,
     Some(<< <<Text("1")>> >>),
     Some(<< <<Tag("script"), Text("alert")>>, <<Text("2")>> >>)}

Binaries == {"PNG_A", "PNG_B"}

RECURSIVE SeqsUpTo(_, _)
SeqsUpTo(S, n) ==
    IF n = 0 THEN {<<>>}
    ELSE LET shorter == SeqsUpTo(S, n - 1)
         IN  shorter \cup {Append(q, x) : q \in {r \in shorter : Len(r) = n - 1}, x \in S}

ScreenshotLists == {None} \cup {Some(q) : q \in SeqsUpTo(Binaries, MaxShots)}

\* CSV bytes: absent, of zero length, or some bytes.
Csvs == {None, Some(<<>>), Some(<<"a,b\n1,2\n">>)}

\* A URL is its part before the query and the sequence of its query
\* parameters.
Urls ==
    {None,
     Some([base |-> "http://host/dash/1", query |-> <<>>]),
     Some([base |-> "http://host/dash/1", query |-> <<[k |-> "tab", v |-> "2"]>>]),
     Some([base |-> "http://host/dash/1",
           query |-> <<[k |-> "standalone", v |-> "1"], [k |-> "tab", v |-> "2"]>>])}

Names == {<<Text("Weekly")>>, <<Text("Daily KPIs")>>}

ReportContents ==
    [name : Names, text : Texts, description : Descriptions,
     embedded_data : DataFrames, screenshots : ScreenshotLists, csv : Csvs, url : Urls]

\* The contents the concurrent callers draw from: with or without an error
\* text, all other fields absent or all of them given.
ConcContents ==
    [name : Names, text : {None, Some(<<>>), Some(<<Text("oops")>>)},
     description : {None}, embedded_data : {None}, screenshots : {None},
     csv : {None}, url : {None}]
    \cup
    [name : Names, text : {None, Some(<<>>), Some(<<Text("oops")>>)},
     description : {Some(<<Text("weekly")>>)},
     embedded_data : {Some(<< <<Text("1")>> >>)},
     screenshots : {Some(<<"PNG_A", "PNG_A">>)},
     csv : {Some(<<"a,b\n1,2\n">>)},
     url : {Some([base |-> "http://host/dash/1", query |-> <<>>])}]

\* recipient_config_json after json.loads: text that is no JSON, an object
\* without "target", an object with it.
RecipientConfigs ==
    {[json |-> "invalid", target |-> None],
     [json |-> "object", target |-> None],
     [json |-> "object", target |-> Some("ops@example.org")],
     [json |-> "object", target |-> Some("bi@example.org")]}

\* app.config["SMTP_MAIL_FROM"] as parseaddr(...)[1].split("@") sees it.
MailFroms == {<<"superset", "example.com">>, <<"superset">>}

AppConfigs ==
    [SMTP_MAIL_FROM : MailFroms, EMAIL_REPORTS_SUBJECT_PREFIX : {<<Text("[Report]")>>}]

----------------------------------------------------------------------------
\* EmailNotification: the pure parts

\* parseaddr(app.config["SMTP_MAIL_FROM"])[1].split("@")[1] raises
\* IndexError when the address has no "@".
SmtpDomainRaises(cfg) == Len(cfg.SMTP_MAIL_FROM) < 2

_get_smtp_domain(cfg) == cfg.SMTP_MAIL_FROM[2]

\* The gettext template with %(text)s interpolated as it is.
_error_template(text) == <<Text("\n Error: ")>> \o text \o <<Text("\n ")>>

\* Faulty variant: the message id is made from the domain alone.
make_msgid_fixed(n, domain) == <<Text("<"), Tok("msgid", domain, 0), Text(">")>>

\* email.utils.make_msgid(domain): "<time.pid.random@domain>"; n stands for
\* the time/pid/random part, which the generator never hands out twice.
make_msgid(n, domain) == <<Text("<"), Tok("msgid", domain, n), Text(">")>>

\* Faulty variant: the angle brackets are kept.
ContentIdUnstripped(n, domain) == make_msgid(n, domain)

\* make_msgid(domain)[1:-1]
ContentId(n, domain) ==
    LET msgid == make_msgid(n, domain) IN SubSeq(msgid, 2, Len(msgid) - 1)

\* The dict comprehension over the screenshots, the k-th one keyed by the
\* k-th message id made from generator state n on.
RECURSIVE ImagesFrom(_, _, _, _)
ImagesFrom(d, shots, domain, n) ==
    IF shots = <<>> THEN d
    ELSE ImagesFrom(DictPut(d, ContentId(n, domain), Head(shots)), Tail(shots), domain, n + 1)

Images(ct, domain, n) ==
    IF Truthy(ct.screenshots) THEN ImagesFrom(<<>>, Get(ct.screenshots), domain, n) ELSE <<>>

\* Faulty variant: a build leaves the generator where it was, so that the
\* next build is handed the same ids.
IdsDrawnNone(ct) == 0

\* Message ids drawn by one build: one per screenshot.
IdsDrawn(ct) == IF Truthy(ct.screenshots) THEN Len(Get(ct.screenshots)) ELSE 0

Description(ct) ==
    BleachClean(IF Truthy(ct.description) THEN Get(ct.description) ELSE <<>>,
                BLEACH_ALLOWED_TAGS)

\* Faulty variant: the frame is rendered with escape=False and not cleaned.
HtmlTableRaw(ct) ==
    IF ct.embedded_data # None
    THEN <<Tag("table"), Tag("tbody"), Tag("tr")>>
         \o Concat([i \in 1..Len(Get(ct.embedded_data)) |->
                       <<Tag("td")>> \o Get(ct.embedded_data)[i]])
    ELSE <<>>

HtmlTable(ct) ==
    IF ct.embedded_data # None
    THEN BleachClean(ToHtml(Get(ct.embedded_data)), TABLE_TAGS)
    ELSE <<>>

EmptyUrl == [base |-> "", query |-> <<>>]

\* superset.utils.urls.modify_url_query(url, standalone="0"): the parameter
\* is overridden where the query has it and appended where it does not.
modify_url_query(url, k, v) ==
    [base |-> url.base,
     query |-> IF \E i \in 1..Len(url.query) : url.query[i].k = k
               THEN [i \in 1..Len(url.query) |->
                        IF url.query[i].k = k THEN [k |-> k, v |-> v] ELSE url.query[i]]
               ELSE Append(url.query, [k |-> k, v |-> v])]

\* A URL as the str the f-string would interpolate.
UrlStr(url) ==
    IF url = EmptyUrl THEN <<>>
    ELSE <<Text(url.base)>>
         \o Concat([i \in 1..Len(url.query) |-> <<Text(url.query[i].k), Text(url.query[i].v)>>])

\* Faulty variant: the report URL is used as it is.
UrlUnmodified(ct) == IF ct.url # None THEN Get(ct.url) ELSE EmptyUrl

Url(ct) == IF ct.url # None THEN modify_url_query(Get(ct.url), "standalone", "0") ELSE EmptyUrl

ImgOpen == Text("<div class=\"image\"><img class=\"adapt-img\" src=\"cid:")
ImgClose == Text("\" width=\"100%\"></div>")

\* Faulty variant: the fragments are joined last key first.
ImgTagReversed(images) ==
    Concat([i \in 1..Len(images) |->
               <<ImgOpen>> \o images[Len(images) + 1 - i].key \o <<ImgClose>>])

\* One fragment per key of images, in the order of the keys, joined.
ImgTag(images) ==
    Concat([i \in 1..Len(images) |-> <<ImgOpen>> \o images[i].key \o <<ImgClose>>])

\* The static markup before and after the one substitution point of the
\* f-string.
SkeletonHead == <<Skel("doctype..summary")>>
SkeletonTail == <<Skel("explore-more..footer")>>

\* The f-string: only img_tag is substituted.
Body(description, html_table, url, img_tag) == SkeletonHead \o img_tag \o SkeletonTail

\* Faulty variant: the attachment is named by the report name alone.
CsvDataNoSuffix(ct) ==
    IF Truthy(ct.csv)
    THEN Some(<<[key |-> ct.name, val |-> Get(ct.csv)]>>)
    ELSE None

\* Faulty variant: the attachment is made whenever csv is not None.
CsvDataWhenSupplied(ct) ==
    IF ct.csv # None
    THEN Some(<<[key |-> ct.name \o <<Text(".csv")>>, val |-> Get(ct.csv)]>>)
    ELSE None

CsvData(ct) ==
    IF Truthy(ct.csv)
    THEN Some(<<[key |-> ct.name \o <<Text(".csv")>>, val |-> Get(ct.csv)]>>)
    ELSE None

EmailContent(body, data, images) == [body |-> body, data |-> data, images |-> images]

\* if self._content.text: the error path is taken for a truthy text only.
ErrorPath(ct) == Truthy(ct.text)

\* Faulty variant: the error path attaches the CSV data.
_get_content_with_data(ct, cfg, n) ==
    IF ErrorPath(ct)
    THEN EmailContent(_error_template(Get(ct.text)), CsvData(ct), None)
    ELSE LET images == Images(ct, _get_smtp_domain(cfg), n)
         IN  EmailContent(Body(Description(ct), HtmlTable(ct), Url(ct), ImgTag(images)),
                          CsvData(ct), Some(images))

\* _get_content() when it returns; n is the message-id generator's state.
_get_content(ct, cfg, n) ==
    IF ErrorPath(ct)
    THEN EmailContent(_error_template(Get(ct.text)), None, None)
    ELSE LET images == Images(ct, _get_smtp_domain(cfg), n)
         IN  EmailContent(Body(Description(ct), HtmlTable(ct), Url(ct), ImgTag(images)),
                          CsvData(ct), Some(images))

\* The locals of the non-error path of _get_content().
Locals(ct, cfg, n) ==
    LET images == Images(ct, _get_smtp_domain(cfg), n)
    IN  [domain |-> _get_smtp_domain(cfg), description |-> Description(ct),
         html_table |-> HtmlTable(ct), url |-> Url(ct), img_tag |-> ImgTag(images)]

_get_subject(ct, cfg) == cfg.EMAIL_REPORTS_SUBJECT_PREFIX \o <<Text(" ")>> \o ct.name

\* json.loads(...)["target"] raises on text that is no JSON and on an
\* object without the key.
GetToRaises(rc) == rc.json = "invalid" \/ rc.target = None

_get_to(rc) == Get(rc.target)

----------------------------------------------------------------------------
\* State

VARIABLES
    config,     \* app.config
    pc,         \* pc[c]: where caller c's send() stands
    content,    \* self._content of caller c's notification
    recipient,  \* self._recipient.recipient_config_json, parsed
    subject,    \* send(): subject
    email,      \* send(): content, the EmailContent built
    built,      \* the locals of the non-error path of _get_content()
    to,         \* send(): to
    exc,        \* the exception send() raised to its caller
    clock,      \* state of the message-id generator (time, pid, random bits)
    outbox,     \* the invocations of send_email_smtp, in order, each with
                \* what it raised
    log         \* the entries logger.info emitted, in order

vars == <<config, pc, content, recipient, subject, email, built, to, exc, clock, outbox, log>>

\* An exception with the call that raised it and, for raise ... from, its
\* cause.
Exc(type, origin, cause) == [type |-> type, origin |-> origin, cause |-> cause]

\* Faulty variant: the error is raised without its cause.
NotificationErrorNoCause(ex) == Exc("NotificationError", "send", None)

\* raise NotificationError(ex) from ex
NotificationError(ex) == Exc("NotificationError", "send", Some(ex))

\* What send_email_smtp raises where it fails.
TransportErrors ==
    {Exc("SMTPException", "send_email_smtp", None),
     Exc("ConnectionRefusedError", "send_email_smtp", None)}

\* What logger.info raises where a handler or filter of the logging
\* configuration fails.
LoggingErrors == {Exc("OSError", "logger.info", None)}

DefaultContent == CHOOSE ct \in ConcContents : ct.text = None /\ ct.url = None
DefaultRecipient == CHOOSE rc \in RecipientConfigs : ~GetToRaises(rc)

Init ==
    /\ config \in AppConfigs
    /\ pc = [c \in Calls |-> "idle"]
    /\ content = [c \in Calls |-> DefaultContent]
    /\ recipient = [c \in Calls |-> DefaultRecipient]
    /\ subject = [c \in Calls |-> None]
    /\ email = [c \in Calls |-> None]
    /\ built = [c \in Calls |-> None]
    /\ to = [c \in Calls |-> None]
    /\ exc = [c \in Calls |-> None]
    /\ clock = 0
    /\ outbox = <<>>
    /\ log = <<>>

----------------------------------------------------------------------------
\* Operations

\* EmailNotification(recipient, content) is constructed, with a content
\* of the set cts, and send() called.
Create(c, cts) ==
    /\ pc[c] = "idle"
    /\ \E ct \in cts, rc \in RecipientConfigs :
          /\ content' = [content EXCEPT ![c] = ct]
          /\ recipient' = [recipient EXCEPT ![c] = rc]
    /\ pc' = [pc EXCEPT ![c] = "subject"]
    /\ UNCHANGED <<config, subject, email, built, to, exc, clock, outbox, log>>

\* subject = self._get_subject()
GetSubject(c) ==
    /\ pc[c] = "subject"
    /\ subject' = [subject EXCEPT ![c] = Some(_get_subject(content[c], config))]
    /\ pc' = [pc EXCEPT ![c] = "content"]
    /\ UNCHANGED <<config, content, recipient, email, built, to, exc, clock, outbox, log>>

\* Faulty variant: building the content uses the screenshots up.
GetContentConsuming(c) ==
    /\ pc[c] = "content"
    /\ IF ~ErrorPath(content[c]) /\ SmtpDomainRaises(config)
       THEN /\ exc' = [exc EXCEPT ![c] = Some(Exc("IndexError", "_get_smtp_domain", None))]
            /\ pc' = [pc EXCEPT ![c] = "raised"]
            /\ UNCHANGED <<email, built, clock, content>>
       ELSE /\ email' = [email EXCEPT ![c] = Some(_get_content(content[c], config, clock))]
            /\ built' = [built EXCEPT ![c] =
                            IF ErrorPath(content[c]) THEN None
                            ELSE Some(Locals(content[c], config, clock))]
            /\ clock' = IF ErrorPath(content[c]) THEN clock ELSE clock + IdsDrawn(content[c])
            /\ content' = [content EXCEPT ![c].screenshots = None]
            /\ pc' = [pc EXCEPT ![c] = "to"]
            /\ exc' = exc
    /\ UNCHANGED <<config, recipient, subject, to, outbox, log>>

\* Faulty variant: the sender domain is derived before the error text is
\* looked at.
GetContentDomainFirst(c) ==
    /\ pc[c] = "content"
    /\ IF SmtpDomainRaises(config)
       THEN /\ exc' = [exc EXCEPT ![c] = Some(Exc("IndexError", "_get_smtp_domain", None))]
            /\ pc' = [pc EXCEPT ![c] = "raised"]
            /\ UNCHANGED <<email, built, clock>>
       ELSE /\ email' = [email EXCEPT ![c] = Some(_get_content(content[c], config, clock))]
            /\ built' = [built EXCEPT ![c] =
                            IF ErrorPath(content[c]) THEN None
                            ELSE Some(Locals(content[c], config, clock))]
            /\ clock' = IF ErrorPath(content[c]) THEN clock ELSE clock + IdsDrawn(content[c])
            /\ pc' = [pc EXCEPT ![c] = "to"]
            /\ exc' = exc
    /\ UNCHANGED <<config, content, recipient, subject, to, outbox, log>>

\* content = self._get_content(); the IndexError of _get_smtp_domain
\* leaves send() unwrapped.
GetContent(c) ==
    /\ pc[c] = "content"
    /\ IF ~ErrorPath(content[c]) /\ SmtpDomainRaises(config)
       THEN /\ exc' = [exc EXCEPT ![c] = Some(Exc("IndexError", "_get_smtp_domain", None))]
            /\ pc' = [pc EXCEPT ![c] = "raised"]
            /\ UNCHANGED <<email, built, clock>>
       ELSE /\ email' = [email EXCEPT ![c] = Some(_get_content(content[c], config, clock))]
            /\ built' = [built EXCEPT ![c] =
                            IF ErrorPath(content[c]) THEN None
                            ELSE Some(Locals(content[c], config, clock))]
            /\ clock' = IF ErrorPath(content[c]) THEN clock ELSE clock + IdsDrawn(content[c])
            /\ pc' = [pc EXCEPT ![c] = "to"]
            /\ exc' = exc
    /\ UNCHANGED <<config, content, recipient, subject, to, outbox, log>>

\* Faulty variant: the recipient is extracted inside the try block.
GetToWrapped(c) ==
    /\ pc[c] = "to"
    /\ IF GetToRaises(recipient[c])
       THEN /\ exc' = [exc EXCEPT ![c] =
                          Some(NotificationError(
                                 Exc(IF recipient[c].json = "invalid"
                                     THEN "JSONDecodeError" ELSE "KeyError", "_get_to", None)))]
            /\ pc' = [pc EXCEPT ![c] = "raised"]
            /\ to' = to
       ELSE /\ to' = [to EXCEPT ![c] = Some(_get_to(recipient[c]))]
            /\ pc' = [pc EXCEPT ![c] = "transport"]
            /\ exc' = exc
    /\ UNCHANGED <<config, content, recipient, subject, email, built, clock, outbox, log>>

\* to = self._get_to(); what json.loads or the subscript raises leaves
\* send() unwrapped.
GetTo(c) ==
    /\ pc[c] = "to"
    /\ IF GetToRaises(recipient[c])
       THEN /\ exc' = [exc EXCEPT ![c] =
                          Some(Exc(IF recipient[c].json = "invalid"
                                   THEN "JSONDecodeError" ELSE "KeyError", "_get_to", None))]
            /\ pc' = [pc EXCEPT ![c] = "raised"]
            /\ to' = to
       ELSE /\ to' = [to EXCEPT ![c] = Some(_get_to(recipient[c]))]
            /\ pc' = [pc EXCEPT ![c] = "transport"]
            /\ exc' = exc
    /\ UNCHANGED <<config, content, recipient, subject, email, built, clock, outbox, log>>

\* Faulty variant: the inline images are left out of the call.
MessageWithoutImages(c) ==
    [call |-> c, to |-> Get(to[c]), subject |-> Get(subject[c]), html_content |-> Get(email[c]).body,
     files |-> <<>>, data |-> Get(email[c]).data, images |-> None,
     bcc |-> "", mime_subtype |-> "related", dryrun |-> FALSE]

\* The arguments send() hands to send_email_smtp.
Message(c) ==
    [call |-> c, to |-> Get(to[c]), subject |-> Get(subject[c]), html_content |-> Get(email[c]).body,
     files |-> <<>>, data |-> Get(email[c]).data, images |-> Get(email[c]).images,
     bcc |-> "", mime_subtype |-> "related", dryrun |-> FALSE]

\* Faulty variant: a failed delivery is tried a second time.
SendEmailSmtpRetry(c) ==
    /\ pc[c] = "transport"
    /\ \/ /\ outbox' = Append(outbox, [msg |-> Message(c), raised |-> None])
          /\ pc' = [pc EXCEPT ![c] = "log"]
          /\ exc' = exc
       \/ \E ex \in TransportErrors :
            /\ outbox' = Append(outbox, [msg |-> Message(c), raised |-> Some(ex)])
            /\ IF \E i \in 1..Len(outbox) : outbox[i].msg.call = c
               THEN /\ exc' = [exc EXCEPT ![c] = Some(NotificationError(ex))]
                    /\ pc' = [pc EXCEPT ![c] = "raised"]
               ELSE UNCHANGED <<exc, pc>>
    /\ UNCHANGED <<config, content, recipient, subject, email, built, to, clock, log>>

\* send_email_smtp(...) inside the try block: it returns, or it raises and
\* the except clause wraps what it raised.
SendEmailSmtp(c) ==
    /\ pc[c] = "transport"
    /\ \/ /\ outbox' = Append(outbox, [msg |-> Message(c), raised |-> None])
          /\ pc' = [pc EXCEPT ![c] = "log"]
          /\ exc' = exc
       \/ \E ex \in TransportErrors :
            /\ outbox' = Append(outbox, [msg |-> Message(c), raised |-> Some(ex)])
            /\ exc' = [exc EXCEPT ![c] = Some(NotificationError(ex))]
            /\ pc' = [pc EXCEPT ![c] = "raised"]
    /\ UNCHANGED <<config, content, recipient, subject, email, built, to, clock, log>>

\* logger.info("Report sent to email"), still inside the try block: what it
\* raises is wrapped by the same except clause.
LoggerInfo(c) ==
    /\ pc[c] = "log"
    /\ \/ /\ log' = Append(log, [call |-> c, msg |-> "Report sent to email"])
          /\ pc' = [pc EXCEPT ![c] = "returned"]
          /\ exc' = exc
       \/ \E ex \in LoggingErrors :
            /\ exc' = [exc EXCEPT ![c] = Some(NotificationError(ex))]
            /\ pc' = [pc EXCEPT ![c] = "raised"]
            /\ log' = log
    /\ UNCHANGED <<config, content, recipient, subject, email, built, to, clock, outbox>>

\* One caller, any report content and recipient.
Next ==
    \/ Create(1, ReportContents)
    \/ GetSubject(1)
    \/ GetContent(1)
    \/ GetTo(1)
    \/ SendEmailSmtp(1)
    \/ LoggerInfo(1)

Spec == Init /\ [][Next]_vars

\* Concurrent callers, each with its own notification.
NextConc ==
    \/ \E c \in Calls : Create(c, ConcContents)
    \/ \E c \in Calls : GetSubject(c)
    \/ \E c \in Calls : GetContent(c)
    \/ \E c \in Calls : GetTo(c)
    \/ \E c \in Calls : SendEmailSmtp(c)
    \/ \E c \in Calls : LoggerInfo(c)

SpecConc == Init /\ [][NextConc]_vars

----------------------------------------------------------------------------
\* Observations

\* The invocations of the transport made by caller c's send().
Invocations(c) == {i \in 1..Len(outbox) : outbox[i].msg.call = c}

Delivered(c) == \E i \in Invocations(c) : outbox[i].raised = None

\* The success entries logged by caller c's send().
SuccessLogs(c) == {i \in 1..Len(log) : log[i].call = c /\ log[i].msg = "Report sent to email"}

Terminated(c) == pc[c] \in {"returned", "raised"}

----------------------------------------------------------------------------
\* Properties

\* C1: whenever the transport raised in a call of send(), that call ended
\* by raising a NotificationError whose cause is the very exception the
\* transport raised, and it logged no success entry.
C1_TransportFailureWrapped ==
    \A c \in Calls : \A i \in Invocations(c) :
        outbox[i].raised # None =>
            /\ pc[c] = "raised"
            /\ exc[c] # None
            /\ Get(exc[c]).type = "NotificationError"
            /\ Get(exc[c]).cause = outbox[i].raised
            /\ SuccessLogs(c) = {}

C1_Witness ==
    \E i \in Invocations(1) : outbox[i].raised # None /\ pc[1] = "raised"

\* C2: a call of send() invokes the transport at most once, and exactly
\* once by the time it ends when subject, content and recipient were all
\* obtained.
C2_NoRetry ==
    \A c \in Calls :
        /\ Cardinality(Invocations(c)) <= 1
        /\ (Terminated(c) /\ subject[c] # None /\ email[c] # None /\ to[c] # None)
              => Cardinality(Invocations(c)) = 1

C2_Witness ==
    /\ pc[1] = "raised"
    /\ Cardinality(Invocations(1)) = 1
    /\ \E i \in Invocations(1) : outbox[i].raised # None

\* C3: every call of send() that has ended either delivered the message,
\* logged success exactly once and returned normally, or delivered nothing,
\* logged nothing and raised.
C3_NoPartialSuccess ==
    \A c \in Calls : Terminated(c) =>
        \/ /\ Delivered(c)
           /\ Cardinality(SuccessLogs(c)) = 1
           /\ pc[c] = "returned" /\ exc[c] = None
        \/ /\ ~Delivered(c)
           /\ SuccessLogs(c) = {}
           /\ pc[c] = "raised" /\ exc[c] # None

\* C4: a NotificationError raised by send() always wraps an exception that
\* send_email_smtp raised.
C4_OnlyTransportWrapped ==
    \A c \in Calls :
        (exc[c] # None /\ Get(exc[c]).type = "NotificationError") =>
            /\ Get(exc[c]).cause # None
            /\ Get(Get(exc[c]).cause).origin = "send_email_smtp"

\* str is a contiguous part of body (x in body).
Contains(body, str) ==
    \E i \in 0..(Len(body) - Len(str)) : SubSeq(body, i + 1, i + Len(str)) = str

\* Caller c's _get_content() has returned on its non-error path.
BuiltNormally(c) == email[c] # None /\ built[c] # None

ScreenshotsOf(c) ==
    IF content[c].screenshots = None THEN <<>> ELSE Get(content[c].screenshots)

\* The places of a body where an image fragment starts.
Fragments(body) == {p \in 1..Len(body) : body[p] = ImgOpen}

\* The content-ID the j-th image fragment of a body references: what
\* stands between "cid:" and the rest of the fragment.
FragmentCid(body, j) ==
    LET p == CHOOSE x \in Fragments(body) :
                 Cardinality({y \in Fragments(body) : y < x}) = j - 1
        q == CHOOSE x \in (p + 1)..Len(body) :
                 body[x] = ImgClose /\ \A y \in (p + 1)..(x - 1) : body[y] # ImgClose
    IN  SubSeq(body, p + 1, q - 1)

\* C5: whenever the report content has an error text, the empty one
\* included, the EmailContent built is the error template around that text,
\* verbatim, without images and without data.
C5_ErrorTemplateForAnyText ==
    \A c \in Calls :
        (email[c] # None /\ content[c].text # None) =>
            Get(email[c]) =
                [body |-> <<Text("\n Error: ")>> \o Get(content[c].text) \o <<Text("\n ")>>,
                 data |-> None, images |-> None]

\* C6: two report contents with the same error text, present as the code
\* tests it (not empty), and differing anyhow in their other fields are
\* built into equal EmailContent values: the error body, no images, no data.
C6_ErrorTextHidesOtherFields ==
    \A c1, c2 \in Calls :
        (/\ email[c1] # None /\ email[c2] # None
         /\ Truthy(content[c1].text)
         /\ content[c1].text = content[c2].text)
            => /\ email[c1] = email[c2]
               /\ Get(email[c1]).images = None
               /\ Get(email[c1]).data = None

C6_Witness ==
    /\ email[1] # None /\ email[2] # None
    /\ Truthy(content[1].text)
    /\ content[1].text = content[2].text
    /\ content[1].description # content[2].description
    /\ content[1].embedded_data # content[2].embedded_data
    /\ content[1].screenshots # content[2].screenshots
    /\ content[1].csv # content[2].csv
    /\ content[1].url # content[2].url

\* C7: on the non-error path a build over N screenshots draws N content-IDs,
\* the images mapping has N entries with pairwise distinct keys, and the
\* body has N image fragments.
C7_OneContentIdPerScreenshot ==
    \A c \in Calls : BuiltNormally(c) =>
        LET images == Get(Get(email[c]).images)
            N == Len(ScreenshotsOf(c))
        IN  /\ clock = N
            /\ Len(images) = N
            /\ \A i, j \in 1..Len(images) : images[i].key = images[j].key => i = j
            /\ Cardinality(Fragments(Get(email[c]).body)) = N

C7_Witness ==
    /\ BuiltNormally(1)
    /\ Len(ScreenshotsOf(1)) = 2
    /\ ScreenshotsOf(1)[1] = ScreenshotsOf(1)[2]

\* C8: on the non-error path the i-th image fragment of the body references
\* the content-ID under which images holds the i-th screenshot, and every
\* key of images is referenced by exactly one fragment.
C8_FragmentsInInputOrder ==
    \A c \in Calls : BuiltNormally(c) =>
        LET images == Get(Get(email[c]).images)
            body == Get(email[c]).body
            shots == ScreenshotsOf(c)
        IN  /\ Cardinality(Fragments(body)) = Len(shots)
            /\ \A j \in 1..Len(shots) :
                 \E k \in 1..Len(images) :
                    /\ images[k].key = FragmentCid(body, j)
                    /\ images[k].val = shots[j]
            /\ \A k \in 1..Len(images) :
                 Cardinality({j \in 1..Len(shots) : FragmentCid(body, j) = images[k].key}) = 1

C8_Witness ==
    /\ BuiltNormally(1)
    /\ Len(ScreenshotsOf(1)) = 2
    /\ ScreenshotsOf(1)[1] # ScreenshotsOf(1)[2]

\* C9: on the non-error path the body holds the sanitized description, the
\* sanitized table fragment, the image fragments and the call-to-action
\* link.
C9_AllFourSubstituted ==
    \A c \in Calls : BuiltNormally(c) =>
        LET body == Get(email[c]).body
        IN  /\ Contains(body, Get(built[c]).description)
            /\ Contains(body, Get(built[c]).html_table)
            /\ Contains(body, Get(built[c]).img_tag)
            /\ Contains(body, UrlStr(Get(built[c]).url))

\* A cell of the data frame carries a <script> tag.
ScriptInCell(ct) ==
    /\ ct.embedded_data # None
    /\ \E i \in 1..Len(Get(ct.embedded_data)) : HasTag(Get(ct.embedded_data)[i], "script")

\* C10: when a cell of the tabular dataset carries a <script> tag, neither
\* the table fragment built from it nor the body holds a <script> tag.
C10_NoScriptFromTable ==
    \A c \in Calls : (BuiltNormally(c) /\ ScriptInCell(content[c])) =>
        /\ ~HasTag(Get(built[c]).html_table, "script")
        /\ ~HasTag(Get(email[c]).body, "script")

C10_Witness ==
    /\ BuiltNormally(1)
    /\ ScriptInCell(content[1])
    /\ Contains(Get(built[1]).html_table, <<Tag("td"), Esc("script")>>)

\* C11: on the non-error path, CSV bytes given for a report named X come
\* back as a data mapping of exactly one entry, keyed X followed by ".csv"
\* and holding those very bytes.
C11_CsvAttachedUnderName ==
    \A c \in Calls : (BuiltNormally(c) /\ Truthy(content[c].csv)) =>
        LET data == Get(email[c]).data
        IN  /\ data # None
            /\ Len(Get(data)) = 1
            /\ Get(data)[1].key = content[c].name \o <<Text(".csv")>>
            /\ Get(data)[1].val = Get(content[c].csv)

C11_Witness ==
    /\ BuiltNormally(1)
    /\ Truthy(content[1].csv)
    /\ content[1].name = <<Text("Weekly")>>
    /\ Get(Get(email[1]).data)[1].key = <<Text("Weekly"), Text(".csv")>>

\* C12 as claimed: the data mapping is there exactly when csv was supplied,
\* zero-length bytes included.
C12_DataIffCsvSupplied ==
    \A c \in Calls : email[c] # None =>
        (Get(email[c]).data # None <=> content[c].csv # None)

\* C12 as amended: the data mapping is there exactly when csv bytes of
\* non-zero length were supplied and the report content carries no error
\* text; it is None otherwise.
C12_DataIffCsvNonEmpty ==
    \A c \in Calls : email[c] # None =>
        (Get(email[c]).data # None
            <=> (content[c].csv # None /\ Len(Get(content[c].csv)) > 0
                 /\ ~(content[c].text # None /\ Len(Get(content[c].text)) > 0)))

C12_Witness ==
    /\ BuiltNormally(1)
    /\ content[1].csv = Some(<<>>)
    /\ Get(email[1]).data = None

\* C13: without screenshots (None or an empty list) the images field of the
\* EmailContent built is None, on either path.
C13_NoImagesWithoutScreenshots ==
    \A c \in Calls : (email[c] # None /\ ~Truthy(content[c].screenshots)) =>
        Get(email[c]).images = None

NotStandalone(param) == param.k # "standalone"

\* C14: on the non-error path the link target is empty without a report
\* URL; with one it is that URL with standalone=0, appended where the URL
\* has no such parameter and put in place of its value where it has, every
\* other parameter as it was.
C14_LinkForcesStandalone ==
    \A c \in Calls : BuiltNormally(c) =>
        LET url == Get(built[c]).url
        IN  IF content[c].url = None
            THEN url = EmptyUrl
            ELSE LET given == Get(content[c].url)
                     had == \E i \in 1..Len(given.query) : given.query[i].k = "standalone"
                 IN  /\ url.base = given.base
                     /\ \E i \in 1..Len(url.query) : url.query[i].k = "standalone"
                     /\ \A i \in 1..Len(url.query) :
                          url.query[i].k = "standalone" => url.query[i].v = "0"
                     /\ SelectSeq(url.query, NotStandalone) = SelectSeq(given.query, NotStandalone)
                     /\ Len(url.query) = Len(given.query) + (IF had THEN 0 ELSE 1)

C14_Witness ==
    /\ BuiltNormally(1)
    /\ content[1].url # None
    /\ Get(content[1].url).query = <<[k |-> "standalone", v |-> "1"], [k |-> "tab", v |-> "2"]>>
    /\ Get(built[1]).url.query = <<[k |-> "standalone", v |-> "0"], [k |-> "tab", v |-> "2"]>>

\* C15: every invocation of the transport carries the target of the
\* caller's recipient configuration, the subject prefix followed by the
\* report name, the body, data and images of the EmailContent built in the
\* same call, no files, an empty bcc, the subtype "related" and no dry run.
C15_TransportArguments ==
    \A i \in 1..Len(outbox) :
        LET m == outbox[i].msg
            c == m.call
        IN  /\ m.to = Get(recipient[c].target)
            /\ m.subject = config.EMAIL_REPORTS_SUBJECT_PREFIX \o <<Text(" ")>> \o content[c].name
            /\ email[c] # None
            /\ m.html_content = Get(email[c]).body
            /\ m.files = <<>>
            /\ m.data = Get(email[c]).data
            /\ m.images = Get(email[c]).images
            /\ m.bcc = ""
            /\ m.mime_subtype = "related"
            /\ m.dryrun = FALSE

C15_Witness ==
    /\ Len(outbox) = 1
    /\ BuiltNormally(1)
    /\ outbox[1].msg.to = "bi@example.org"
    /\ outbox[1].msg.data # None
    /\ outbox[1].msg.images # None
    /\ Len(Get(outbox[1].msg.images)) = 2

\* C16: _get_content() always returns: once a call of send() is past
\* building the content, whatever the mail-from address, it holds an
\* EmailContent.
C16_GetContentNeverRaises ==
    \A c \in Calls : pc[c] \notin {"idle", "subject", "content"} => email[c] # None

\* C17: a step of _get_content() changes neither the report content, the
\* recipient or the configuration, nor the transport's invocations or the
\* log, nor anything of another caller's send().
C17_GetContentHasNoSideEffects ==
    [][\A c \in Calls :
          GetContent(c) =>
             /\ UNCHANGED <<content, recipient, config, outbox, log>>
             /\ \A d \in Calls \ {c} :
                  UNCHANGED <<pc[d], subject[d], email[d], built[d], to[d], exc[d]>>]_vars

C17_Witness ==
    /\ BuiltNormally(1) /\ pc[1] = "to"
    /\ BuiltNormally(2) /\ pc[2] = "to"
    /\ Truthy(content[1].screenshots) /\ Truthy(content[1].csv)
    /\ outbox = <<>> /\ log = <<>>

\* The content-IDs of an images argument or field.
CidsOf(images) == IF images = None THEN {} ELSE {Get(images)[k].key : k \in 1..Len(Get(images))}

\* C18: with callers interleaved anyhow, every invocation of the transport
\* carries what derives from its own caller's recipient and content, the
\* messages of different callers share no content-ID, and a caller whose
\* send() returned has its one success entry and no exception, whatever
\* became of the other caller.
C18_CallsAreIndependent ==
    /\ \A i \in 1..Len(outbox) :
         LET m == outbox[i].msg
             c == m.call
             ct == content[c]
         IN  /\ m.to = Get(recipient[c].target)
             /\ m.subject = config.EMAIL_REPORTS_SUBJECT_PREFIX \o <<Text(" ")>> \o ct.name
             /\ IF ct.text # None /\ Len(Get(ct.text)) > 0
                THEN /\ m.html_content = <<Text("\n Error: ")>> \o Get(ct.text) \o <<Text("\n ")>>
                     /\ m.images = None
                     /\ m.data = None
                ELSE /\ m.images # None
                     /\ Len(Get(m.images)) = Len(ScreenshotsOf(c))
                     /\ \A k \in 1..Len(ScreenshotsOf(c)) :
                          /\ Get(m.images)[k].val = ScreenshotsOf(c)[k]
                          /\ FragmentCid(m.html_content, k) = Get(m.images)[k].key
                     /\ Cardinality(Fragments(m.html_content)) = Len(ScreenshotsOf(c))
                     /\ m.data = IF ct.csv # None /\ Len(Get(ct.csv)) > 0
                                 THEN Some(<<[key |-> ct.name \o <<Text(".csv")>>,
                                              val |-> Get(ct.csv)]>>)
                                 ELSE None
    /\ \A i, j \in 1..Len(outbox) :
         outbox[i].msg.call # outbox[j].msg.call =>
            CidsOf(outbox[i].msg.images) \cap CidsOf(outbox[j].msg.images) = {}
    /\ \A c \in Calls :
         /\ pc[c] = "returned" => (exc[c] = None /\ Cardinality(SuccessLogs(c)) = 1)
         /\ exc[c] # None => pc[c] = "raised"

\* One caller's delivery failed first; the other's, with different
\* recipient and report name and with images of its own, then succeeded.
C18_Witness ==
    /\ Len(outbox) = 2
    /\ outbox[1].msg.call = 1 /\ outbox[1].raised # None /\ pc[1] = "raised"
    /\ outbox[2].msg.call = 2 /\ outbox[2].raised = None /\ pc[2] = "returned"
    /\ outbox[1].msg.to # outbox[2].msg.to
    /\ outbox[1].msg.subject # outbox[2].msg.subject
    /\ CidsOf(outbox[1].msg.images) # {} /\ CidsOf(outbox[2].msg.images) # {}

\* C19: every key of an images mapping is a message id without its angle
\* brackets, of the domain of SMTP_MAIL_FROM; two builds share no key, and
\* two builds of the same report content with screenshots differ in their
\* images keys and in their bodies.
C19_FreshContentIds ==
    /\ \A c \in Calls : BuiltNormally(c) =>
         \A key \in CidsOf(Get(email[c]).images) :
            /\ Len(key) = 1
            /\ key[1].kind = "msgid"
            /\ key[1].s = config.SMTP_MAIL_FROM[2]
    /\ \A c, d \in Calls : (c # d /\ BuiltNormally(c) /\ BuiltNormally(d)) =>
         /\ CidsOf(Get(email[c]).images) \cap CidsOf(Get(email[d]).images) = {}
         /\ (content[c] = content[d] /\ Truthy(content[c].screenshots)) =>
               /\ Get(email[c]).images # Get(email[d]).images
               /\ Get(email[c]).body # Get(email[d]).body

C19_Witness ==
    /\ BuiltNormally(1) /\ BuiltNormally(2)
    /\ content[1] = content[2]
    /\ Truthy(content[1].screenshots)

\* The inputs on which a step of send() before the transport raises.
FailsBeforeTransport(c) ==
    \/ ~(content[c].text # None /\ Len(Get(content[c].text)) > 0)
          /\ Len(config.SMTP_MAIL_FROM) < 2
    \/ recipient[c].json = "invalid"
    \/ recipient[c].target = None

\* C20: the transport is invoked only after subject, content and recipient
\* were obtained; a call in which one of these steps raises ends without an
\* invocation of the transport and without a success entry, raising the
\* original exception, which is no NotificationError and has no cause.
C20_EarlyFailuresUnwrapped ==
    \A c \in Calls :
        /\ Invocations(c) # {} => (subject[c] # None /\ email[c] # None /\ to[c] # None)
        /\ (Terminated(c) /\ FailsBeforeTransport(c)) =>
              /\ pc[c] = "raised"
              /\ exc[c] # None
              /\ Get(exc[c]).type \in {"IndexError", "JSONDecodeError", "KeyError"}
              /\ Get(exc[c]).cause = None
              /\ Invocations(c) = {}
              /\ SuccessLogs(c) = {}

C20_Witness ==
    /\ pc[1] = "raised"
    /\ recipient[1].json = "invalid"
    /\ email[1] # None
    /\ Get(exc[1]).type = "JSONDecodeError"

\* Caller c's send() is past the call of _get_content().
PastContent(c) == pc[c] \notin {"idle", "subject", "content"}

\* C21: with a non-empty error text the build returns the EmailContent
\* without deriving the sender domain and without drawing a message id,
\* also where the mail-from address has no domain; without one the domain
\* is derived on every build, screenshots or not, so that the build raises
\* IndexError where the address has no domain.
C21_ErrorPathSkipsDomain ==
    \A c \in Calls : PastContent(c) =>
        IF content[c].text # None /\ Len(Get(content[c].text)) > 0
        THEN /\ email[c] # None
             /\ built[c] = None
             /\ clock = 0
             /\ (exc[c] # None => Get(exc[c]).origin # "_get_smtp_domain")
        ELSE IF Len(config.SMTP_MAIL_FROM) < 2
             THEN /\ email[c] = None
                  /\ pc[c] = "raised"
                  /\ exc[c] = Some(Exc("IndexError", "_get_smtp_domain", None))
             ELSE /\ built[c] # None
                  /\ Get(built[c]).domain = config.SMTP_MAIL_FROM[2]

\* An error notification built under a mail-from address without domain,
\* for a content that carries screenshots.
C21_Witness ==
    /\ PastContent(1)
    /\ Truthy(content[1].text)
    /\ Truthy(content[1].screenshots)
    /\ Len(config.SMTP_MAIL_FROM) < 2
    /\ email[1] # None
    /\ Get(email[1]).images = None

====
